---------------------------- MODULE Spec2Model ----------------------------
(***************************************************************************)
(* A model of src/app.py: the /asr request handler of the remote-CLI       *)
(* transcription service, its transcript extractor and its upload          *)
(* validation.                                                             *)
(*                                                                         *)
(* Text is modelled as a sequence of tokens.  Every token stands for a     *)
(* fixed piece of a Python string, chosen so that the markers the code     *)
(* looks for ("Final transcript:", "transcript:", "\n", ".", the quote     *)
(* character) begin and end on token borders:                              *)
(*    FS = "Final "  (with its trailing blank)   F  = "Final"              *)
(*    T  = "transcript:"     SP = " "     NL = "\n"     QT = the quote     *)
(*    "x" = some other text                                                *)
(* so "Final transcript:" is <<FS, T>>.                                    *)
(***************************************************************************)
EXTENDS Integers, Sequences, FiniteSets, TLC

\* ------------------------------------------------------------------ bounds
\* Longest transcriber output (in tokens) the extractor is checked on.
MaxOutLen == 6
\* Longest upload filename (in tokens) the validation is checked on.
MaxNameLen == 3
\* Number of /asr requests handled concurrently.
NumRequests == 2

\* ------------------------------------------------------------------ tokens
FS == "Final "
F == "Final"
T == "transcript:"
SP == " "
NL == "NL"
QT == "QT"
DOT == "."

Whitespace == {SP, NL}
OutAlphabet == {FS, T, SP, NL, QT, "x"}

\* All sequences over S of length at most n.
SeqsUpTo(S, n) == UNION {[1..k -> S] : k \in 0..n}

\* --------------------------------------------------------- str operations
\* a + b.  "Final" followed by " " is the same text as "Final ".
Concat(a, b) ==
    IF a # <<>> /\ b # <<>> /\ a[Len(a)] = F /\ b[1] = SP
    THEN SubSeq(a, 1, Len(a) - 1) \o <<FS>> \o Tail(b)
    ELSE a \o b

RECURSIVE LStrip(_, _)
\* str.lstrip(chars)
LStrip(s, chars) ==
    IF s # <<>> /\ s[1] \in chars THEN LStrip(Tail(s), chars) ELSE s

RECURSIVE RStripTokens(_, _)
RStripTokens(s, chars) ==
    IF s # <<>> /\ s[Len(s)] \in chars
    THEN RStripTokens(SubSeq(s, 1, Len(s) - 1), chars)
    ELSE s

\* str.rstrip(chars): whole tokens first, then the blank that ends "Final ".
RStrip(s, chars) ==
    LET r == RStripTokens(s, chars)
    IN  IF SP \in chars /\ r # <<>> /\ r[Len(r)] = FS
        THEN SubSeq(r, 1, Len(r) - 1) \o <<F>>
        ELSE r

\* str.strip(chars)
StripChars(s, chars) == RStrip(LStrip(s, chars), chars)

\* str.strip()
Strip(s) == StripChars(s, Whitespace)

\* str.startswith(prefix)
StartsWith(s, prefix) ==
    Len(s) >= Len(prefix) /\ SubSeq(s, 1, Len(prefix)) = prefix

\* str.find(sep) + 1: the position of the first occurrence, 0 if none.
Find(s, sep) ==
    LET hits == {i \in 1..(Len(s) - Len(sep) + 1) : SubSeq(s, i, i + Len(sep) - 1) = sep}
    IN  IF hits = {} THEN 0 ELSE CHOOSE i \in hits : \A j \in hits : i <= j

RECURSIVE Split(_, _)
\* str.split(sep): the pieces between the non-overlapping occurrences of sep,
\* left to right.
Split(s, sep) ==
    LET i == Find(s, sep)
    IN  IF i = 0 THEN <<s>>
        ELSE <<SubSeq(s, 1, i - 1)>> \o Split(SubSeq(s, i + Len(sep), Len(s)), sep)

\* The sequence in the order given.
Unreversed(seq) == seq

\* reversed(seq)
Reversed(seq) == [i \in 1..Len(seq) |-> seq[Len(seq) + 1 - i]]

\* ------------------------------------------------------ extract_transcript
FinalMarker == <<FS, T>>
TranscriptMarker == <<T>>

EmptyOutputError == "ASR output is empty. Check the run_riva_asr function."
UnableToExtractError == "Unable to extract transcript from ASR output"

Return(v) == [kind |-> "return", value |-> v]
RaiseValueError(m) == [kind |-> "raise", value |-> m]

\* lines 72-74: the first line, in the order given, that starts with the
\* marker; 0 if none.
FirstFinalLine(lines) ==
    LET hits == {i \in 1..Len(lines) : StartsWith(lines[i], FinalMarker)}
    IN  IF hits = {} THEN 0 ELSE CHOOSE i \in hits : \A j \in hits : i <= j

\* line 74
FinalText(line) == Strip(Split(line, FinalMarker)[2])

\* line 79: what one "transcript:" line adds to the accumulator.
TranscriptPiece(line) ==
    Concat(StripChars(Strip(Split(line, TranscriptMarker)[2]), {QT}), <<SP>>)

RECURSIVE Accumulate(_, _)
\* lines 76-79: the accumulator after the forward loop over the lines.
Accumulate(lines, acc) ==
    IF lines = <<>> THEN acc
    ELSE Accumulate(Tail(lines),
                    IF StartsWith(Strip(lines[1]), TranscriptMarker)
                    THEN Concat(acc, TranscriptPiece(lines[1]))
                    ELSE acc)

\* lines 66-84
extract_transcript(asr_output) ==
    IF asr_output = <<>> THEN RaiseValueError(EmptyOutputError)
    ELSE LET lines == Split(Strip(asr_output), <<NL>>)
             rev == Reversed(lines)
             k == FirstFinalLine(rev)
             transcript == Accumulate(lines, <<>>)
         IN  IF k # 0 THEN Return(FinalText(rev[k]))
             ELSE IF transcript # <<>> THEN Return(Strip(transcript))
             ELSE RaiseValueError(UnableToExtractError)

\* --------------------------------------------------------- upload validation
NameAlphabet == {DOT, "x", "wav", "WAV", "Opus", "OGG", "txt"}

\* str.lower(), token by token.
LowerToken(c) ==
    CASE c = "WAV" -> "wav"
      [] c = "Opus" -> "opus"
      [] c = "OGG" -> "ogg"
      [] OTHER -> c

Lower(s) == [i \in 1..Len(s) |-> LowerToken(s[i])]

\* line 96: the accepted extensions.
AcceptedExtensions == {<<"wav">>, <<"opus">>, <<"ogg">>}

\* lines 96-97: file.filename.split('.')[-1]
LastPiece(filename) ==
    LET pieces == Split(filename, <<DOT>>) IN pieces[Len(pieces)]

\* line 96: file.filename.split('.')[-1].lower() in ['wav', 'opus', 'ogg']
AllowedFile(filename) == Lower(LastPiece(filename)) \in AcceptedExtensions

\* request.files without the field 'file', and with it.
NoFileField == [present |-> FALSE, filename |-> <<>>]
FileField(name) == [present |-> TRUE, filename |-> name]

NoFileProvided == "No file provided"
NoFileSelected == "No file selected"
InvalidFileType == "Invalid file type. Please upload a WAV, OPUS, or OGG file."
UnexpectedError == "An unexpected error occurred during processing"
EmptyAsrOutputError == "ASR output is empty"

\* jsonify({'error': m}), status
ErrorResponse(status, m) == [status |-> status, body |-> [error |-> m]]
NoResponse == [status |-> 0, body |-> [error |-> ""]]
Accepted == [status |-> 1, body |-> [error |-> ""]]

\* The same checks with the extension looked at before the empty filename.
ValidateExtensionFirst(file) ==
    IF ~file.present THEN ErrorResponse(400, NoFileProvided)
    ELSE IF ~AllowedFile(file.filename) THEN ErrorResponse(400, InvalidFileType)
    ELSE IF file.filename = <<>> THEN ErrorResponse(400, NoFileSelected)
    ELSE Accepted

\* lines 88-96 and 123-124: the 400 response, or Accepted when the handler
\* goes on to line 97.  bool(file) is bool(file.filename).
ValidateUpload(file) ==
    IF ~file.present THEN ErrorResponse(400, NoFileProvided)
    ELSE IF file.filename = <<>> THEN ErrorResponse(400, NoFileSelected)
    ELSE IF file.filename # <<>> /\ AllowedFile(file.filename) THEN Accepted
    ELSE ErrorResponse(400, InvalidFileType)

\* ------------------------------------------------------------ the handler
Requests == 1..NumRequests

\* The uploads the concurrent handlers are given.
HandlerUploads ==
    {NoFileField, FileField(<<>>), FileField(<<"x", DOT, "txt">>),
     FileField(<<"x", DOT, "WAV">>)}

\* What the transcriber subprocess may print when it exits with status zero.
HandlerOutputs ==
    {<<>>, <<"x">>, <<FS, T, "x">>, <<FS, T>>}

\* Names tempfile may hand out; a request holds at most one.
TempNames == {<<"tmp", i>> : i \in 1..NumRequests}
NoName == <<>>

\* uuid.uuid4() values.
Uuids == {"u1", "u2"}

\* Python's exception classes: UnicodeDecodeError derives from ValueError.
ValueErrorTypes == {"ValueError", "UnicodeDecodeError"}

Exc(type, m) == [type |-> type, msg |-> m]

\* line 48: subprocess.run(check=True, text=True) raises CalledProcessError
\* on a non-zero exit status and UnicodeDecodeError on output it cannot decode.
TranscriberFailures ==
    {Exc("CalledProcessError", "Command returned non-zero exit status 1."),
     Exc("UnicodeDecodeError", "codec can't decode byte")}

\* lines 57-62: the storage client's calls raise its own errors, and
\* ValueError when no bucket name is configured.
StoreFailures ==
    {Exc("GoogleCloudError", "upload failed"),
     Exc("ValueError", "Cannot determine path without bucket name.")}

\* An uncaught exception leaves the view: Flask answers for the handler.
FlaskInternalServerError == [status |-> 500, body |-> [html |-> "Internal Server Error"]]

\* lines 114-119: the except clauses, in order.
HandleException(e) ==
    IF e.type \in ValueErrorTypes THEN ErrorResponse(500, e.msg)
    ELSE ErrorResponse(500, UnexpectedError)

\* The two values under each other's key.
SuccessResponseSwapped(url, text) ==
    [status |-> 200, body |-> [text_url |-> text, text |-> url]]

\* lines 110-113
SuccessResponse(url, text) ==
    [status |-> 200, body |-> [text_url |-> url, text |-> text]]

\* line 64: blob.public_url
PublicUrl(u) == <<"https://storage.googleapis.com", "GCS_BUCKET_NAME", u, ".txt">>

\* Any name, taken or not.
AnyNames(files) == TempNames

\* line 97: NamedTemporaryFile creates its file exclusively, under a name no
\* existing file has.
FreshNames(files) == TempNames \ DOMAIN files

VARIABLES
    asr_text,      \* SpecExtract: the output given to extract_transcript
    extracted,     \* SpecExtract: what extract_transcript did with it
    upload_file,   \* SpecValidate: the multipart field under validation
    verdict,       \* SpecValidate: what the validation answered
    upload,        \* per request: the multipart field of the request
    pc,            \* per request: where the handler is
    temp_name,     \* per request: temp_file.name
    asr_output,    \* per request: the transcriber's stdout
    asr_source,    \* per request: whose upload the transcriber read
    transcript,    \* per request: extract_transcript's value
    store_call,    \* per request: the argument and the result of save_text_to_gcs
    response,      \* per request: the response built, sent once pc is "Done"
    hist,          \* per request: the stages gone through, in order
    fs,            \* the temp directory: name -> [by, data]
    bucket         \* the bucket: blob name -> text

extractVars == <<asr_text, extracted>>
validateVars == <<upload_file, verdict>>
handlerVars == <<upload, pc, temp_name, asr_output, asr_source, transcript,
                 store_call, response, hist, fs, bucket>>
vars == <<extractVars, validateVars, handlerVars>>

NotRun == [kind |-> "notrun", value |-> <<>>]
NoCall == [called |-> FALSE, arg |-> <<>>, ret |-> <<>>]
EmptyMap == [n \in {} |-> <<>>]

\* The handlers before any request came in.
HandlerIdle ==
    /\ pc = [r \in Requests |-> "Received"]
    /\ temp_name = [r \in Requests |-> NoName]
    /\ asr_output = [r \in Requests |-> <<>>]
    /\ asr_source = [r \in Requests |-> {}]
    /\ transcript = [r \in Requests |-> <<>>]
    /\ store_call = [r \in Requests |-> NoCall]
    /\ response = [r \in Requests |-> NoResponse]
    /\ hist = [r \in Requests |-> <<>>]
    /\ fs = EmptyMap
    /\ bucket = EmptyMap

ExtractIdle == asr_text = <<>> /\ extracted = NotRun
ValidateIdle == upload_file = NoFileField /\ verdict = NoResponse

\* ----------------------------------------------- extract_transcript alone
InitExtract ==
    /\ asr_text \in SeqsUpTo(OutAlphabet, MaxOutLen)
    /\ extracted = NotRun
    /\ ValidateIdle
    /\ upload = [r \in Requests |-> NoFileField]
    /\ HandlerIdle

RunExtract ==
    /\ extracted = NotRun
    /\ extracted' = extract_transcript(asr_text)
    /\ UNCHANGED <<asr_text, validateVars, handlerVars>>

SpecExtract == InitExtract /\ [][RunExtract]_vars

\* ------------------------------------------------- the validation alone
InitValidate ==
    /\ upload_file \in {NoFileField} \cup {FileField(n) : n \in SeqsUpTo(NameAlphabet, MaxNameLen)}
    /\ verdict = NoResponse
    /\ ExtractIdle
    /\ upload = [r \in Requests |-> NoFileField]
    /\ HandlerIdle

RunValidate ==
    /\ verdict = NoResponse
    /\ verdict' = ValidateUpload(upload_file)
    /\ UNCHANGED <<upload_file, extractVars, handlerVars>>

SpecValidate == InitValidate /\ [][RunValidate]_vars

\* ------------------------------------------------ the handler's steps
Stage(r, name) == hist' = [hist EXCEPT ![r] = Append(@, name)]
Stages(r, names) == hist' = [hist EXCEPT ![r] = @ \o names]

\* lines 88-96, 123-124
Validate(r) ==
    /\ pc[r] = "Received"
    /\ LET v == ValidateUpload(upload[r])
       IN  IF v = Accepted
           THEN /\ pc' = [pc EXCEPT ![r] = "Validated"]
                /\ Stage(r, "Validated")
                /\ UNCHANGED response
           ELSE /\ pc' = [pc EXCEPT ![r] = "Done"]
                /\ response' = [response EXCEPT ![r] = v]
                /\ Stage(r, "Rejected")
    /\ UNCHANGED <<upload, temp_name, asr_output, asr_source, transcript,
                   store_call, fs, bucket, extractVars, validateVars>>

\* line 97: the temp file is created, empty.
Allocate(r) ==
    /\ pc[r] = "Validated"
    /\ \E n \in FreshNames(fs) :
          /\ temp_name' = [temp_name EXCEPT ![r] = n]
          /\ fs' = [m \in DOMAIN fs \cup {n} |->
                       IF m = n THEN [by |-> r, data |-> {}] ELSE fs[m]]
    /\ pc' = [pc EXCEPT ![r] = "Allocated"]
    /\ Stage(r, "Allocated")
    /\ UNCHANGED <<upload, asr_output, asr_source, transcript, store_call,
                   response, bucket, extractVars, validateVars>>

\* line 98, file.save(temp_file.name): the path is opened for writing (and
\* created if it is gone) and the upload copied into it.
WriteUpload(r) ==
    LET n == temp_name[r]
    IN  fs' = [m \in DOMAIN fs \cup {n} |->
                  IF m = n
                  THEN [by |-> IF n \in DOMAIN fs THEN fs[n].by ELSE r, data |-> {r}]
                  ELSE fs[m]]

\* lines 98-99 when the write succeeds.
SaveUploadOk(r) ==
    /\ pc[r] = "Allocated"
    /\ WriteUpload(r)
    /\ pc' = [pc EXCEPT ![r] = "Staged"]
    /\ Stage(r, "Staged")
    /\ UNCHANGED <<upload, temp_name, asr_output, asr_source, transcript,
                   store_call, response, bucket, extractVars, validateVars>>

\* line 98 when the write raises (a full disk, say): the with block closes
\* the file, which delete=False keeps, and the exception leaves the view
\* before the try of line 101 is entered.
SaveUploadFails(r) ==
    /\ pc[r] = "Allocated"
    /\ pc' = [pc EXCEPT ![r] = "Done"]
    /\ response' = [response EXCEPT ![r] = FlaskInternalServerError]
    /\ Stage(r, "StageFailed")
    /\ UNCHANGED <<upload, temp_name, asr_output, asr_source, transcript,
                   store_call, fs, bucket, extractVars, validateVars>>

\* lines 101-102, 45-48: the subprocess is started on input_file.
AsrStart(r) ==
    /\ pc[r] = "Staged"
    /\ pc' = [pc EXCEPT ![r] = "Transcribing"]
    /\ Stage(r, "Transcribing")
    /\ UNCHANGED <<upload, temp_name, asr_output, asr_source, transcript,
                   store_call, response, fs, bucket, extractVars, validateVars>>

\* lines 48-49: the subprocess exits with status zero, having read the file
\* at input_file, and its output decodes.
AsrReturns(r) ==
    /\ pc[r] = "Transcribing"
    /\ \E out \in HandlerOutputs :
          asr_output' = [asr_output EXCEPT ![r] = out]
    /\ asr_source' = [asr_source EXCEPT ![r] =
                         IF temp_name[r] \in DOMAIN fs THEN fs[temp_name[r]].data ELSE {}]
    /\ pc' = [pc EXCEPT ![r] = "Transcribed"]
    /\ Stage(r, "Transcribed")
    /\ UNCHANGED <<upload, temp_name, transcript, store_call, response, fs,
                   bucket, extractVars, validateVars>>

\* lines 48-54 and 114-119: subprocess.run raises; run_riva_asr logs and
\* re-raises; the handler's except clauses build the response.
AsrRaises(r) ==
    /\ pc[r] = "Transcribing"
    /\ \E e \in TranscriberFailures :
          /\ response' = [response EXCEPT ![r] = HandleException(e)]
          /\ Stages(r, <<"TranscribeFailed", e.type>>)
    /\ pc' = [pc EXCEPT ![r] = "Finally"]
    /\ UNCHANGED <<upload, temp_name, asr_output, asr_source, transcript,
                   store_call, fs, bucket, extractVars, validateVars>>

\* lines 103-107 and 114-116
Extract(r) ==
    /\ pc[r] = "Transcribed"
    /\ IF asr_output[r] = <<>>
       THEN /\ response' = [response EXCEPT ![r] =
                               HandleException(Exc("ValueError", EmptyAsrOutputError))]
            /\ pc' = [pc EXCEPT ![r] = "Finally"]
            /\ Stage(r, "ExtractFailed")
            /\ UNCHANGED transcript
       ELSE LET res == extract_transcript(asr_output[r])
            IN  IF res.kind = "return"
                THEN /\ transcript' = [transcript EXCEPT ![r] = res.value]
                     /\ pc' = [pc EXCEPT ![r] = "Extracted"]
                     /\ Stages(r, <<"Extracting", "Extracted">>)
                     /\ UNCHANGED response
                ELSE /\ response' = [response EXCEPT ![r] =
                                        HandleException(Exc("ValueError", res.value))]
                     /\ pc' = [pc EXCEPT ![r] = "Finally"]
                     /\ Stages(r, <<"Extracting", "ExtractFailed">>)
                     /\ UNCHANGED transcript
    /\ UNCHANGED <<upload, temp_name, asr_output, asr_source, store_call, fs,
                   bucket, extractVars, validateVars>>

\* lines 108-113, 56-64: the text is uploaded under a new uuid4 name and the
\* 200 response built from the blob's public URL.
StoreReturns(r) ==
    /\ pc[r] = "Extracted"
    /\ \E u \in Uuids :
          /\ bucket' = [b \in DOMAIN bucket \cup {u} |->
                           IF b = u THEN transcript[r] ELSE bucket[b]]
          /\ store_call' = [store_call EXCEPT ![r] =
                               [called |-> TRUE, arg |-> transcript[r], ret |-> PublicUrl(u)]]
          /\ response' = [response EXCEPT ![r] =
                             SuccessResponse(PublicUrl(u), transcript[r])]
    /\ pc' = [pc EXCEPT ![r] = "Finally"]
    /\ Stages(r, <<"Storing", "Stored", "Responding">>)
    /\ UNCHANGED <<upload, temp_name, asr_output, asr_source, transcript, fs,
                   extractVars, validateVars>>

\* lines 108, 57-62 and 114-119: the storage client raises.
StoreRaises(r) ==
    /\ pc[r] = "Extracted"
    /\ \E e \in StoreFailures :
          /\ response' = [response EXCEPT ![r] = HandleException(e)]
          /\ Stages(r, <<"Storing", "StoreFailed", e.type>>)
    /\ pc' = [pc EXCEPT ![r] = "Finally"]
    /\ UNCHANGED <<upload, temp_name, asr_output, asr_source, transcript,
                   store_call, fs, bucket, extractVars, validateVars>>

\* lines 120-122, after which the response built above is returned.
Cleanup(r) ==
    /\ pc[r] = "Finally"
    /\ fs' = IF temp_name[r] \in DOMAIN fs
             THEN [m \in DOMAIN fs \ {temp_name[r]} |-> fs[m]]
             ELSE fs
    /\ pc' = [pc EXCEPT ![r] = "Done"]
    /\ Stage(r, "Cleanup")
    /\ UNCHANGED <<upload, temp_name, asr_output, asr_source, transcript,
                   store_call, response, bucket, extractVars, validateVars>>

Init ==
    /\ upload \in [Requests -> HandlerUploads]
    /\ HandlerIdle
    /\ ExtractIdle
    /\ ValidateIdle

Next ==
    \E r \in Requests :
        \/ Validate(r)
        \/ Allocate(r)
        \/ SaveUploadOk(r)
        \/ SaveUploadFails(r)
        \/ AsrStart(r)
        \/ AsrReturns(r)
        \/ AsrRaises(r)
        \/ Extract(r)
        \/ StoreReturns(r)
        \/ StoreRaises(r)
        \/ Cleanup(r)

Spec == Init /\ [][Next]_vars

\* =================================================================== claims
Contains(s, m) == Find(s, m) # 0
\* The text after the first occurrence of m in s.
After(s, m) == SubSeq(s, Find(s, m) + Len(m), Len(s))
\* The text before the first occurrence of m in s, all of s if there is none.
Before(s, m) == IF Find(s, m) = 0 THEN s ELSE SubSeq(s, 1, Find(s, m) - 1)
Greatest(S) == CHOOSE i \in S : \A j \in S : j <= i

Has(r, ev) == \E i \in DOMAIN hist[r] : hist[r][i] = ev
Count(r, ev) == Cardinality({i \in DOMAIN hist[r] : hist[r][i] = ev})
\* ev is in r's history and a comes before its first occurrence.
HasAfter(r, ev, a) ==
    \A i \in DOMAIN hist[r] : hist[r][i] = ev => \E j \in 1..(i - 1) : hist[r][j] = a
Answered(r) == pc[r] = "Done"
OwnsFile(r) == \E n \in DOMAIN fs : fs[n].by = r

\* C1: once an accepted request's temp file has been allocated, the file no
\* longer exists when the handler has returned its response, on every exit
\* path, a failure while writing the upload included.
C1_TempFileGoneAfterResponse ==
    \A r \in Requests : (Answered(r) /\ Has(r, "Allocated")) => ~OwnsFile(r)

\* C2: invalid requests get status 400 with the fixed message of the first
\* check they fail (no field, empty filename, extension), and a request
\* answered 400 allocated no temp file, ran no transcriber and stored nothing.
C2_RejectionsInOrder ==
    \A r \in Requests :
        Answered(r) =>
            LET f == upload[r]
            IN  /\ ~f.present => response[r] = ErrorResponse(400, NoFileProvided)
                /\ (f.present /\ f.filename = <<>>)
                       => response[r] = ErrorResponse(400, NoFileSelected)
                /\ (f.present /\ f.filename # <<>>
                        /\ Lower(LastPiece(f.filename)) \notin AcceptedExtensions)
                       => response[r] = ErrorResponse(400, InvalidFileType)
                /\ response[r].status = 400
                       => /\ temp_name[r] = NoName
                          /\ ~OwnsFile(r)
                          /\ ~Has(r, "Allocated")
                          /\ ~Has(r, "Transcribing")
                          /\ ~Has(r, "Storing")
                          /\ ~store_call[r].called

C2_Witness ==
    \E r \in Requests :
        /\ Answered(r)
        /\ response[r] = ErrorResponse(400, NoFileSelected)
        /\ \E s \in Requests : Answered(s) /\ response[s] = ErrorResponse(400, InvalidFileType)

\* C3: a non-empty filename is accepted if and only if it has a '.' and the
\* lower-cased text after its last '.' is wav, opus or ogg.
C3_AcceptedIffExtension ==
    (verdict # NoResponse /\ upload_file.present /\ upload_file.filename # <<>>)
        => (verdict = Accepted
               <=> /\ Contains(upload_file.filename, <<DOT>>)
                   /\ Lower(LastPiece(upload_file.filename)) \in AcceptedExtensions)

\* C4 as stated: when some line of the output contains "Final transcript:",
\* the result is the trimmed text that follows the marker on the last such
\* line.
C4_LastLineContainingMarker ==
    extracted # NotRun =>
        LET lines == Split(asr_text, <<NL>>)
            S == {i \in 1..Len(lines) : Contains(lines[i], FinalMarker)}
        IN  S # {} => extracted = Return(Strip(After(lines[Greatest(S)], FinalMarker)))

\* C4 as amended: when some line of the trimmed output begins with "Final
\* transcript:", the result is the trimmed text between that leading marker
\* on the last such line and the next occurrence of the marker on that line
\* (the end of the line if there is none), whatever "transcript:" lines
\* come before or after it.
C4_LastLineStartingWithMarker ==
    extracted # NotRun =>
        LET lines == Split(Strip(asr_text), <<NL>>)
            S == {i \in 1..Len(lines) : StartsWith(lines[i], FinalMarker)}
        IN  S # {} =>
                extracted =
                    Return(Strip(Before(SubSeq(lines[Greatest(S)], Len(FinalMarker) + 1,
                                               Len(lines[Greatest(S)])),
                                        FinalMarker)))

C4_Witness ==
    /\ extracted.kind = "return"
    /\ LET lines == Split(Strip(asr_text), <<NL>>)
           S == {i \in 1..Len(lines) : StartsWith(lines[i], FinalMarker)}
       IN  \E i \in S : /\ i < Greatest(S)
                        /\ FinalText(lines[i]) # FinalText(lines[Greatest(S)])
                        /\ extracted.value = FinalText(lines[Greatest(S)])

\* One pair of enclosing quote characters removed, if the text has one.
StripOnePair(s) ==
    IF Len(s) >= 2 /\ s[1] = QT /\ s[Len(s)] = QT THEN SubSeq(s, 2, Len(s) - 1) ELSE s

RECURSIVE JoinWithSpace(_)
JoinWithSpace(pieces) ==
    IF pieces = <<>> THEN <<>>
    ELSE IF Len(pieces) = 1 THEN pieces[1]
    ELSE Concat(Concat(pieces[1], <<SP>>), JoinWithSpace(Tail(pieces)))

RECURSIVE SelectLines(_)
\* The lines whose trimmed content starts with "transcript:", in order.
SelectLines(lines) ==
    IF lines = <<>> THEN <<>>
    ELSE (IF StartsWith(Strip(lines[1]), TranscriptMarker) THEN <<lines[1]>> ELSE <<>>)
             \o SelectLines(Tail(lines))

\* C5: with no "Final transcript:" anywhere in the output, the result is the
\* texts after the marker of the "transcript:" lines, each trimmed and rid of
\* one pair of enclosing quotes, joined by single spaces, and trimmed.
C5_FallbackJoinsTranscriptLines ==
    (extracted # NotRun /\ ~Contains(asr_text, FinalMarker)) =>
        LET sel == SelectLines(Split(asr_text, <<NL>>))
            pieces == [i \in 1..Len(sel) |->
                          StripOnePair(Strip(After(sel[i], TranscriptMarker)))]
            joined == Strip(JoinWithSpace(pieces))
        IN  (sel # <<>> /\ joined # <<>>) => extracted = Return(joined)

\* C6: extract_transcript never returns an empty string.
C6_NeverReturnsEmpty ==
    extracted.kind = "return" => extracted.value # <<>>

\* C7: for an accepted upload, a failure of the transcriber or of the text
\* store is answered 500 with exactly the generic message, whatever the
\* exception's type and message; only an extraction failure's own message
\* is sent.
C7_OnlyExtractionMessageSent ==
    \A r \in Requests :
        (Answered(r) /\ (Has(r, "TranscribeFailed") \/ Has(r, "StoreFailed")))
            => response[r] = ErrorResponse(500, UnexpectedError)

\* C8: an accepted request is answered 200 if and only if the transcriber
\* returned non-empty output, extract_transcript returned and the store
\* returned; the body then holds the value extract_transcript gives for
\* that output and the reference the store returned when given that value.
C8_SuccessIffAllStagesReturned ==
    \A r \in Requests :
        (Answered(r) /\ Has(r, "Validated")) =>
            /\ response[r].status = 200
                   <=> /\ Has(r, "Transcribed")
                       /\ asr_output[r] # <<>>
                       /\ Has(r, "Extracted")
                       /\ Has(r, "Stored")
            /\ response[r].status = 200 =>
                   LET res == extract_transcript(asr_output[r])
                   IN  /\ res.kind = "return"
                       /\ store_call[r].called
                       /\ store_call[r].arg = res.value
                       /\ response[r].body =
                              [text_url |-> store_call[r].ret, text |-> res.value]

C8_Witness ==
    \E r \in Requests :
        /\ Answered(r)
        /\ response[r].status = 200
        /\ response[r].body.text = <<"x">>
        /\ \E s \in Requests : Answered(s) /\ Has(s, "Validated") /\ response[s].status = 500

AnyFailure(r) ==
    \/ Has(r, "StageFailed")
    \/ Has(r, "TranscribeFailed")
    \/ Has(r, "ExtractFailed")
    \/ Has(r, "StoreFailed")

\* C9: the transcriber runs at most once and only after validation and
\* staging; extraction only after the transcriber succeeded; the store at
\* most once and only after extraction succeeded; nothing is stored when
\* transcription or extraction failed; a failure before Responding skips the
\* later stages and goes to Cleanup and an error response; every request
\* ends with one response.
C9_StageOrder ==
    \A r \in Requests :
        /\ Count(r, "Transcribing") <= 1
        /\ HasAfter(r, "Transcribing", "Validated")
        /\ HasAfter(r, "Transcribing", "Staged")
        /\ HasAfter(r, "Extracting", "Transcribed")
        /\ Count(r, "Storing") <= 1
        /\ HasAfter(r, "Storing", "Extracted")
        /\ (Has(r, "TranscribeFailed") \/ Has(r, "ExtractFailed"))
               => (~Has(r, "Storing") /\ ~store_call[r].called)
        /\ AnyFailure(r) => ~Has(r, "Responding")
        /\ (Answered(r) /\ AnyFailure(r))
               => (Has(r, "Cleanup") /\ response[r].status = 500)
        /\ Answered(r) => response[r] # NoResponse
        /\ ~Answered(r) => Count(r, "Cleanup") = 0

Holding(r) ==
    pc[r] \in {"Allocated", "Staged", "Transcribing", "Transcribed", "Extracted", "Finally"}

C10_State ==
    \A r \in Requests :
        /\ \A s \in Requests \ {r} :
               (Holding(r) /\ Holding(s)) => temp_name[r] # temp_name[s]
        /\ pc[r] = "Transcribing"
               => (temp_name[r] \in DOMAIN fs /\ fs[temp_name[r]] = [by |-> r, data |-> {r}])
        /\ Has(r, "Transcribed") => asr_source[r] = {r}
        /\ response[r].status = 200
               => /\ response[r].body.text = extract_transcript(asr_output[r]).value
                  /\ response[r].body.text_url = store_call[r].ret
                  /\ store_call[r].arg = transcript[r]

\* A step other than r's own leaves the temp file r holds as it is.
C10_Step ==
    \A r \in Requests :
        (Holding(r) /\ pc'[r] = pc[r] /\ temp_name[r] \in DOMAIN fs)
            => (temp_name[r] \in DOMAIN fs' /\ fs'[temp_name[r]] = fs[temp_name[r]])

\* C10: under any interleaving, requests holding temp files hold distinct
\* ones; a request's file exists, with its own upload in it, for as long as
\* its transcriber runs; no request's step deletes or changes the file
\* another one holds; and what a request returns comes from its own
\* transcriber output and its own store call.
C10_NoInterference == [](C10_State) /\ [][C10_Step]_vars

C10_Witness ==
    \E r \in Requests : \E s \in Requests \ {r} :
        /\ pc[r] = "Transcribing"
        /\ pc[s] = "Finally"
        /\ Has(s, "Allocated")

=============================================================================
